---- MODULE Spec2Model ----
(***************************************************************************)
(* tuicam: a capture task (FrameHandler::run) and an input task            *)
(* (EventHandler::new) publish to an unbounded mpsc channel; the           *)
(* application loop (App::run) consumes it and mutates the shared          *)
(* FrameHandlerConfig behind a tokio RwLock.                               *)
(***************************************************************************)
EXTENDS Integers, Sequences, FiniteSets, TLC

\* ---------------------------------------------------------------- bounds
\* Cameras the probe of this model can find (the code probes ids 0..=10).
MaxCams == 2
\* Events the channel holds at once in the model (the channel is unbounded).
MaxBus == 1
\* Key and resize events the terminal delivers in one run of the model.
MaxInputs == 2
\* Mode-switch key presses in one run of SpecSwitchMode.
MaxModePresses == 5
\* Camera-switch key presses in one run of SpecSwitchCam.
MaxCamPresses == 3
\* Events the channel holds at once in one run of SpecFrames.
MaxBacklog == 2
\* Mode-switch key presses in one run of SpecFrames.
MaxFramePresses == 2
\* Key and resize events the terminal delivers in one run of SpecLock.
MaxLockInputs == 1

\* ------------------------------------------------------------- data model
ImageConvertTypes ==
  {"ColorfulHalfBlock", "Colorful", "GrayScale", "GrayScaleThreshold", "Threshold"}

CamWindowScales == {"Full", "Small"}

\* `CamWindowScale as u16`
ScaleValue(s) == IF s = "Full" THEN 1 ELSE 2

\* Terminal sizes the terminal backend reports in Resize events.
TerminalSizes == {<<100, 40>>, <<81, 25>>}

\* The size terminal.size() reports to App::try_new.
StartSize == <<100, 40>>

\* Key presses the terminal backend delivers: <<code, ctrl>>.
KeyCodes == {"m", "f", "c", "Esc", "Space", "x"}
KeyEvents == {<<c, FALSE>> : c \in KeyCodes \ {"Space"}} \cup {<<"Space", TRUE>>}

\* Option<T>: None is <<>>, Some(v) is <<v>>.
None == <<>>
Some(v) == <<v>>
IsSome(o) == o # <<>>
Unwrap(o) == o[1]

\* Camera::default, lines 50-62: the ids that opened, ascending. The
\* devices of this model sit at the even ids 0, 2, 4, ..: the probe finds
\* the first n of them, n = 0 included.
ProbeResults == {[i \in 1..n |-> 2 * (i - 1)] : n \in 0..MaxCams}

\* Camera::default: active_index is Some(0) whatever the probe found.
CameraDefault(ids) == [active_index |-> Some(0), ids |-> ids]

\* A switch whose bound test is off by one: it steps past the last camera.
CameraSwitchOffByOne(camera) ==
  IF IsSome(camera.active_index)
  THEN IF Len(camera.ids) >= Unwrap(camera.active_index) + 1
       THEN [camera EXCEPT !.active_index = Some(Unwrap(camera.active_index) + 1)]
       ELSE [camera EXCEPT !.active_index = Some(0)]
  ELSE camera

\* Camera::switch
CameraSwitch(camera) ==
  IF IsSome(camera.active_index)
  THEN IF Len(camera.ids) > Unwrap(camera.active_index) + 1
       THEN [camera EXCEPT !.active_index = Some(Unwrap(camera.active_index) + 1)]
       ELSE [camera EXCEPT !.active_index = Some(0)]
  ELSE camera

\* Camera::get_cam_id: ids.get(active_index), None when out of range.
GetCamId(camera) ==
  IF IsSome(camera.active_index)
  THEN IF Unwrap(camera.active_index) >= 0
          /\ Unwrap(camera.active_index) < Len(camera.ids)
       THEN Some(camera.ids[Unwrap(camera.active_index) + 1])
       ELSE None
  ELSE None

\* The field the application loop reads at app.rs:87 and toggles at
\* app.rs:198; its declaration and initial value are not in handler.rs.
InitIsLocked == FALSE

\* FrameHandlerConfig::new
FrameHandlerConfigNew(size, ids) ==
  [ image_convert_type |-> "ColorfulHalfBlock",
    terminal_size      |-> size,
    cam_window_scale   |-> "Small",
    camera             |-> CameraDefault(ids),
    is_locked          |-> InitIsLocked ]

\* A match that leaves Threshold out of the cycle.
NextModeSkipsThreshold(m) ==
  CASE m = "ColorfulHalfBlock"  -> "Colorful"
    [] m = "Colorful"           -> "GrayScale"
    [] m = "GrayScale"          -> "GrayScaleThreshold"
    [] m = "GrayScaleThreshold" -> "ColorfulHalfBlock"
    [] m = "Threshold"          -> "ColorfulHalfBlock"

\* The match of App::switch_mode
NextMode(m) ==
  CASE m = "ColorfulHalfBlock"  -> "Colorful"
    [] m = "Colorful"           -> "GrayScale"
    [] m = "GrayScale"          -> "GrayScaleThreshold"
    [] m = "GrayScaleThreshold" -> "Threshold"
    [] m = "Threshold"          -> "ColorfulHalfBlock"

\* The match of App::switch_cam_window_scale
NextScale(s) == IF s = "Small" THEN "Full" ELSE "Small"

\* A resize target that is doubled in no render mode.
CamSizeNeverDoubled(cfg) ==
  <<cfg.terminal_size[1] \div ScaleValue(cfg.cam_window_scale),
    cfg.terminal_size[2] \div ScaleValue(cfg.cam_window_scale)>>

\* The resize target of FrameHandler::run (lines 364-379).
CamSize(cfg) ==
  LET w == cfg.terminal_size[1] \div ScaleValue(cfg.cam_window_scale)
      h == cfg.terminal_size[2] \div ScaleValue(cfg.cam_window_scale)
  IN  IF cfg.image_convert_type = "ColorfulHalfBlock"
      THEN <<w * 2, h * 2>>
      ELSE <<w, h>>

\* Dimensions of the Text built by convert_frame_into_ascii (lines 163-166).
AsciiDims(size, mode) ==
  IF mode = "ColorfulHalfBlock"
  THEN <<size[1] \div 2, size[2] \div 2>>
  ELSE size

\* Text::default(), the initial frame buffer.
EmptyFrame == [mode |-> "none", w |-> 0, h |-> 0]

\* handler.rs 365-378: what the block's read guard shows of the config.
TargetCfg(cfg) ==
  [terminal_size |-> cfg.terminal_size,
   cam_window_scale |-> cfg.cam_window_scale,
   image_convert_type |-> cfg.image_convert_type]

\* Outside that block the guard does not exist.
NoTarget == [terminal_size |-> <<0, 0>>, cam_window_scale |-> "none", image_convert_type |-> "none"]

\* convert_frame_into_ascii has not been handed pixels / has made no cell.
NoPixels == <<>>
NoCell == [glyph |-> "none"]

\* The Text of one converted frame: the mode it was quantized with and its
\* dimensions in cells.
AsciiFrame(size, mode) ==
  [mode |-> mode, w |-> AsciiDims(size, mode)[1], h |-> AsciiDims(size, mode)[2]]

\* AppEvent
EvFrame(f)  == <<"AsciiFrame", f>>
EvKey(k)    == <<"Event", k[1], k[2]>>
EvResize(s) == <<"TerminalResize", s>>
NoEvent     == <<"none">>

\* app.rs:83, the lock-toggle chord
IsLockChord(ev) == ev[1] = "Event" /\ ev[3] /\ ev[2] = "Space"
IsKey(ev, code) == ev[1] = "Event" /\ ev[2] = code

\* ------------------------------------------------------------------ state
VARIABLES
  config,            \* Arc<RwLock<FrameHandlerConfig>>
  bus,               \* the unbounded mpsc channel, oldest event first
  rx_open,           \* the receiver half still exists
  app_state,         \* "Running", "Terminated" (break), "Failed" (Err from ?)
  pc_app,            \* position of App::run
  app_ev,            \* the AppEvent being processed
  app_new,           \* new_image_convert_type / cam_window_scale of the switch in progress
  frame_buffer,      \* App::frame_buffer
  app_write_queued,  \* App::run waits in the RwLock queue for the write lock
  pc_cap,            \* position of the capture task
  active_cam_id,     \* local of FrameHandler::run: the id `cam` was opened on, -1 for None
  current_cam_id,    \* local of FrameHandler::run
  cam_size,          \* local of FrameHandler::run
  target_cfg,        \* the fields the guard of lines 365-378 showed
  resize_res,        \* result of the last imgproc::resize call
  cap_read_held,     \* the read guard `config` of line 395 is alive
  start_config,      \* the config the run started from
  pc_input,          \* position of the input task
  n_inputs,          \* events the terminal has delivered so far
  px,                \* source pixels handed to convert_frame_into_ascii
  cell               \* the cell convert_frame_into_ascii made of them

capVars == <<pc_cap, active_cam_id, current_cam_id, cam_size, target_cfg, resize_res, cap_read_held>>
appVars == <<app_state, pc_app, app_ev, app_new, frame_buffer, app_write_queued>>
inVars == <<pc_input, n_inputs>>
quantVars == <<px, cell>>
vars == <<config, start_config, bus, rx_open, appVars, capVars, inVars, quantVars>>

\* App::try_new apart from the config: both tasks spawned, an empty
\* channel, frame_buffer = Text::default().
InitTasks ==
  /\ start_config = config
  /\ bus = <<>>
  /\ rx_open = TRUE
  /\ app_state = "Running"
  /\ pc_app = "recv"
  /\ app_ev = NoEvent
  /\ app_new = "none"
  /\ frame_buffer = EmptyFrame
  /\ app_write_queued = FALSE
  /\ pc_cap = "cam_id"
  /\ active_cam_id = -1
  /\ current_cam_id = -1
  /\ cam_size = <<0, 0>>
  /\ target_cfg = NoTarget
  /\ resize_res = "none"
  /\ cap_read_held = FALSE
  /\ pc_input = "running"
  /\ n_inputs = 0

\* No frame has been converted yet.
InitRest ==
  /\ InitTasks
  /\ px = NoPixels
  /\ cell = NoCell

\* App::try_new: the config built from terminal.size() and the probe.
Init ==
  /\ \E size \in {StartSize}, ids \in ProbeResults :
       config = FrameHandlerConfigNew(size, ids)
  /\ InitRest


\* ------------------------------------------------------------ RwLock
\* tokio's RwLock is fair: a read requested while a writer waits in the
\* queue is granted after that writer. Every guard of the program except
\* the `config` guard of handler.rs:395 is a temporary dropped within its
\* statement, so the lock state is that guard plus the queued writer.
CanRead == ~app_write_queued
CanWrite == ~cap_read_held

\* ------------------------------------------------------- capture task
\* lines 347-362: the active camera id from a read guard, unwrapped;
\* get_cam (324-333) when it differs from the open one; cam.read. `opened`
\* and `read_ok` are the outcomes of VideoCapture::new and of cam.read: Ok,
\* or Err that the code unwraps.
CapGetCam(opened, read_ok) ==
  /\ pc_cap = "cam_id"
  /\ CanRead
  /\ resize_res' = "none"
  /\ IF ~IsSome(GetCamId(config.camera))
     THEN /\ pc_cap' = "panic_no_cam"
          /\ UNCHANGED <<current_cam_id, active_cam_id>>
     ELSE /\ current_cam_id' = Unwrap(GetCamId(config.camera))
          /\ IF current_cam_id' # active_cam_id /\ ~opened
             THEN /\ pc_cap' = "panic_open"
                  /\ UNCHANGED active_cam_id
             ELSE /\ active_cam_id' = current_cam_id'
                  /\ pc_cap' = IF read_ok THEN "cam_size" ELSE "panic_read"
  /\ UNCHANGED <<start_config, quantVars, config, bus, rx_open, appVars, inVars, cam_size, target_cfg,
                 cap_read_held>>

CapGetCamId == \E opened \in BOOLEAN, read_ok \in BOOLEAN : CapGetCam(opened, read_ok)

\* lines 364-379: the resize target, from one read guard; lines 383-390:
\* imgproc::resize, `resized` being its outcome Ok or Err.
CapResize(resized) ==
  /\ pc_cap = "cam_size"
  /\ CanRead
  /\ target_cfg' = TargetCfg(config)
  /\ cam_size' = CamSize(config)
  /\ resize_res' = IF resized THEN "ok" ELSE "err"
  /\ pc_cap' = IF resized THEN "convert" ELSE "failover"
  /\ UNCHANGED <<start_config, quantVars, config, bus, rx_open, appVars, inVars,
                 active_cam_id, current_cam_id, cap_read_held>>

CapCamSize == \E resized \in BOOLEAN : CapResize(resized)

\* A failover that retries the same camera: the switch is left out.
CapFailoverRetrySame ==
  /\ pc_cap = "failover"
  /\ pc_cap' = "cam_id"
  /\ cam_size' = <<0, 0>>
  /\ target_cfg' = NoTarget
  /\ current_cam_id' = -1
  /\ UNCHANGED <<start_config, quantVars, config, bus, rx_open, appVars, inVars, active_cam_id, resize_res, cap_read_held>>

\* A failover that writes back the mode and scale its iteration read,
\* with the camera switched.
CapFailoverWritesSnapshot ==
  /\ pc_cap = "failover"
  /\ config' = [config EXCEPT !.camera = CameraSwitch(config.camera),
                              !.image_convert_type = target_cfg.image_convert_type,
                              !.cam_window_scale = target_cfg.cam_window_scale]
  /\ pc_cap' = "cam_id"
  /\ cam_size' = <<0, 0>>
  /\ target_cfg' = NoTarget
  /\ current_cam_id' = -1
  /\ UNCHANGED <<start_config, quantVars, bus, rx_open, appVars, inVars, active_cam_id, resize_res, cap_read_held>>

\* lines 391-392: config.write().await.camera.switch(); continue. The
\* iteration's locals go out of scope.
CapFailover ==
  /\ pc_cap = "failover"
  /\ config' = [config EXCEPT !.camera = CameraSwitch(config.camera)]
  /\ pc_cap' = "cam_id"
  /\ cam_size' = <<0, 0>>
  /\ target_cfg' = NoTarget
  /\ current_cam_id' = -1
  /\ UNCHANGED <<start_config, quantVars, bus, rx_open, appVars, inVars, active_cam_id, resize_res, cap_read_held>>

\* A conversion by the mode the resize target was computed with.
ConvertModeOfTarget(cfg, target) == target.image_convert_type

\* lines 395-396 and 422: the mode the conversion uses is the one the
\* guard of line 395 shows, not the one of the cam_size block.
ConvertMode(cfg, target) == cfg.image_convert_type

\* lines 395-426: take the read guard `config`, convert with the mode it
\* shows, send the frame; the guard lives on to the end of the iteration.
\* `max` is the number of events the model lets the channel hold.
CapPublishUpTo(max) ==
  /\ pc_cap = "convert"
  /\ CanRead
  /\ IF rx_open
     THEN /\ Len(bus) < max
          /\ bus' = Append(bus, EvFrame(AsciiFrame(cam_size, ConvertMode(config, target_cfg))))
          /\ cap_read_held' = TRUE
          /\ pc_cap' = "tick"
     ELSE \* line 425: break; the guard is dropped with the task
          /\ pc_cap' = "done"
          /\ UNCHANGED <<bus, cap_read_held>>
  /\ UNCHANGED <<start_config, quantVars, config, rx_open, appVars, inVars,
                 active_cam_id, current_cam_id, cam_size, target_cfg, resize_res>>

CapConvertSend == CapPublishUpTo(MaxBus)

\* A tick after which the guard of line 395 is still held.
CapTickKeepsGuard ==
  /\ pc_cap = "tick"
  /\ pc_cap' = "cam_id"
  /\ cam_size' = <<0, 0>>
  /\ target_cfg' = NoTarget
  /\ current_cam_id' = -1
  /\ UNCHANGED <<start_config, quantVars, config, bus, rx_open, appVars, inVars, active_cam_id, resize_res,
                 cap_read_held>>

\* line 428: interval.tick().await, then the iteration ends: `config` is
\* dropped and the iteration's locals go out of scope.
CapTick ==
  /\ pc_cap = "tick"
  /\ cap_read_held' = FALSE
  /\ pc_cap' = "cam_id"
  /\ cam_size' = <<0, 0>>
  /\ target_cfg' = NoTarget
  /\ current_cam_id' = -1
  /\ UNCHANGED <<start_config, quantVars, config, bus, rx_open, appVars, inVars, active_cam_id, resize_res>>

CaptureTask ==
  \/ CapGetCamId
  \/ CapCamSize
  \/ CapFailover
  \/ CapConvertSend
  \/ CapTick

\* -------------------------------------------------- application loop
\* The statements of App::run and of its helpers that take the write lock.
AppWritePcs == {"toggle_lock", "mode_write", "scale_write", "cam_write", "resize_write"}

\* A receiver that hands out the newest event of the channel.
ChannelNextNewest(b) == b[Len(b)]

\* Channel::next, channel.rs 36-38: rx.recv() yields the oldest event.
ChannelNext(b) == Head(b)

\* lines 79-81: channel.next() yields AsciiFrame; frame_buffer = ascii_frame;
\* lines 103-170: the redraw
AppRecvFrame ==
  /\ app_state = "Running"
  /\ pc_app = "recv"
  /\ bus # <<>>
  /\ Head(bus)[1] = "AsciiFrame"
  /\ bus' = Tail(bus)
  /\ frame_buffer' = ChannelNext(bus)[2]
  /\ UNCHANGED <<start_config, quantVars, config, rx_open, app_state, pc_app, app_ev, app_new, app_write_queued,
                 capVars, inVars>>

\* lines 79-85: channel.next() yields a key event; the chord test of line 83
AppRecvKey ==
  /\ app_state = "Running"
  /\ pc_app = "recv"
  /\ bus # <<>>
  /\ Head(bus)[1] = "Event"
  /\ bus' = Tail(bus)
  /\ app_ev' = Head(bus)
  /\ pc_app' = IF IsLockChord(Head(bus)) THEN "toggle_lock" ELSE "check_lock"
  /\ UNCHANGED <<start_config, quantVars, config, rx_open, app_state, app_new, frame_buffer, app_write_queued,
                 capVars, inVars>>

\* lines 79-80, 97: channel.next() yields TerminalResize
AppRecvResize ==
  /\ app_state = "Running"
  /\ pc_app = "recv"
  /\ bus # <<>>
  /\ Head(bus)[1] = "TerminalResize"
  /\ bus' = Tail(bus)
  /\ app_ev' = Head(bus)
  /\ pc_app' = "resize_write"
  /\ UNCHANGED <<start_config, quantVars, config, rx_open, app_state, app_new, frame_buffer, app_write_queued,
                 capVars, inVars>>

\* write().await while the capture task holds its read guard: the loop
\* waits in the lock's queue.
AppWriteQueue ==
  /\ app_state = "Running"
  /\ pc_app \in AppWritePcs
  /\ ~CanWrite
  /\ ~app_write_queued
  /\ app_write_queued' = TRUE
  /\ UNCHANGED <<start_config, quantVars, config, bus, rx_open, app_state, pc_app, app_ev, app_new, frame_buffer,
                 capVars, inVars>>

\* A toggle that the lock itself blocks: it only ever locks.
AppToggleLockOnlyWhenUnlocked ==
  /\ app_state = "Running"
  /\ pc_app = "toggle_lock"
  /\ CanWrite
  /\ config' = [config EXCEPT !.is_locked = TRUE]
  /\ app_write_queued' = FALSE
  /\ pc_app' = "check_lock"
  /\ UNCHANGED <<start_config, quantVars, bus, rx_open, app_state, app_ev, app_new, frame_buffer, capVars, inVars>>

\* App::toggle_lock (lines 196-199)
AppToggleLock ==
  /\ app_state = "Running"
  /\ pc_app = "toggle_lock"
  /\ CanWrite
  /\ config' = [config EXCEPT !.is_locked = ~config.is_locked]
  /\ app_write_queued' = FALSE
  /\ pc_app' = "check_lock"
  /\ UNCHANGED <<start_config, quantVars, bus, rx_open, app_state, app_ev, app_new, frame_buffer, capVars, inVars>>

\* A match whose catch-all arm leaves the loop.
KeyTargetAnyKeyExits(code) ==
  CASE code = "m"   -> "mode_read"
    [] code = "f"   -> "scale_read"
    [] code = "c"   -> "cam_write"
    [] OTHER        -> "break"

\* A match without the Esc arm.
KeyTargetNoExit(code) ==
  CASE code = "m"   -> "mode_read"
    [] code = "f"   -> "scale_read"
    [] code = "c"   -> "cam_write"
    [] OTHER        -> "recv"

\* The arm the match of lines 88-94 takes for a key code; "recv" is the
\* end of the event's processing (the redraw of lines 103-170 and the next
\* pass of the loop).
KeyTarget(code) ==
  CASE code = "m"   -> "mode_read"
    [] code = "f"   -> "scale_read"
    [] code = "c"   -> "cam_write"
    [] code = "Esc" -> "break"
    [] OTHER        -> "recv"

\* A gate that does not look at is_locked.
LockGateIgnoresLock(locked, code) == KeyTarget(code)

\* Where line 87 sends a key event: past the match when is_locked.
LockGate(locked, code) == IF locked THEN "recv" ELSE KeyTarget(code)

\* lines 87-95: the is_locked test and the match on key_event.code
AppCheckLock ==
  /\ app_state = "Running"
  /\ pc_app = "check_lock"
  /\ IF LockGate(config.is_locked, app_ev[2]) = "break"
     THEN /\ app_state' = "Terminated"
          /\ pc_app' = "exit"
          /\ UNCHANGED app_ev
     ELSE /\ pc_app' = LockGate(config.is_locked, app_ev[2])
          /\ app_ev' = IF pc_app' = "recv" THEN NoEvent ELSE app_ev
          /\ UNCHANGED app_state
  /\ UNCHANGED <<start_config, quantVars, config, bus, rx_open, app_new, frame_buffer, app_write_queued,
                 capVars, inVars>>

\* App::switch_mode, lines 181-187: the new mode from a read guard
AppModeRead ==
  /\ app_state = "Running"
  /\ pc_app = "mode_read"
  /\ app_new' = NextMode(config.image_convert_type)
  /\ pc_app' = "mode_write"
  /\ UNCHANGED <<start_config, quantVars, config, bus, rx_open, app_state, app_ev, frame_buffer, app_write_queued,
                 capVars, inVars>>

\* App::switch_mode, line 189, then the redraw
AppModeWrite ==
  /\ app_state = "Running"
  /\ pc_app = "mode_write"
  /\ CanWrite
  /\ config' = [config EXCEPT !.image_convert_type = app_new]
  /\ app_write_queued' = FALSE
  /\ app_new' = "none"
  /\ app_ev' = NoEvent
  /\ pc_app' = "recv"
  /\ UNCHANGED <<start_config, quantVars, bus, rx_open, app_state, frame_buffer, capVars, inVars>>

\* App::switch_cam_window_scale, lines 206-209
AppScaleRead ==
  /\ app_state = "Running"
  /\ pc_app = "scale_read"
  /\ app_new' = NextScale(config.cam_window_scale)
  /\ pc_app' = "scale_write"
  /\ UNCHANGED <<start_config, quantVars, config, bus, rx_open, app_state, app_ev, frame_buffer, app_write_queued,
                 capVars, inVars>>

\* App::switch_cam_window_scale, line 211, then the redraw
AppScaleWrite ==
  /\ app_state = "Running"
  /\ pc_app = "scale_write"
  /\ CanWrite
  /\ config' = [config EXCEPT !.cam_window_scale = app_new]
  /\ app_write_queued' = FALSE
  /\ app_new' = "none"
  /\ app_ev' = NoEvent
  /\ pc_app' = "recv"
  /\ UNCHANGED <<start_config, quantVars, bus, rx_open, app_state, frame_buffer, capVars, inVars>>

\* App::switch_cam (lines 215-217), then the redraw
AppSwitchCam ==
  /\ app_state = "Running"
  /\ pc_app = "cam_write"
  /\ CanWrite
  /\ config' = [config EXCEPT !.camera = CameraSwitch(config.camera)]
  /\ app_write_queued' = FALSE
  /\ app_ev' = NoEvent
  /\ pc_app' = "recv"
  /\ UNCHANGED <<start_config, quantVars, bus, rx_open, app_state, app_new, frame_buffer, capVars, inVars>>

\* lines 97-99: terminal_size = (width, height), then the redraw
AppResizeWrite ==
  /\ app_state = "Running"
  /\ pc_app = "resize_write"
  /\ CanWrite
  /\ config' = [config EXCEPT !.terminal_size = app_ev[2]]
  /\ app_write_queued' = FALSE
  /\ app_ev' = NoEvent
  /\ pc_app' = "recv"
  /\ UNCHANGED <<start_config, quantVars, bus, rx_open, app_state, app_new, frame_buffer, capVars, inVars>>

\* line 77 terminal.size()? and line 170 terminal.draw(..)?: the terminal
\* backend returns an io error between two events and App::run returns Err.
AppTerminalError ==
  /\ app_state = "Running"
  /\ pc_app = "recv"
  /\ app_state' = "Failed"
  /\ pc_app' = "exit"
  /\ UNCHANGED <<start_config, quantVars, config, bus, rx_open, app_ev, app_new, frame_buffer, app_write_queued,
                 capVars, inVars>>

\* main.rs 25-31: App::run has returned; the App and with it the Channel's
\* receiver are dropped while the spawned tasks may still run.
DropChannel ==
  /\ app_state # "Running"
  /\ rx_open
  /\ rx_open' = FALSE
  /\ bus' = <<>>
  /\ UNCHANGED <<start_config, quantVars, config, appVars, capVars, inVars>>

AppLoop ==
  \/ AppRecvFrame
  \/ AppRecvKey
  \/ AppRecvResize
  \/ AppWriteQueue
  \/ AppToggleLock
  \/ AppCheckLock
  \/ AppModeRead
  \/ AppModeWrite
  \/ AppScaleRead
  \/ AppScaleWrite
  \/ AppSwitchCam
  \/ AppResizeWrite
  \/ AppTerminalError
  \/ DropChannel

\* --------------------------------------------------------- input task
\* handler.rs 449-456: a key or resize event of the terminal is sent; the
\* send is unwrapped, so a closed channel panics the task.
InputSendUpTo(ev, max) ==
  /\ pc_input = "running"
  /\ n_inputs < max
  /\ n_inputs' = n_inputs + 1
  /\ IF rx_open
     THEN /\ Len(bus) < MaxBus
          /\ bus' = Append(bus, ev)
          /\ UNCHANGED pc_input
     ELSE /\ pc_input' = "panic_send"
          /\ UNCHANGED bus
  /\ UNCHANGED <<start_config, quantVars, config, rx_open, appVars, capVars>>

InputSend(ev) == InputSendUpTo(ev, MaxInputs)

\* line 453
InputKey == \E k \in KeyEvents : InputSend(EvKey(k))

\* lines 454-456
InputResize == \E s \in TerminalSizes : InputSend(EvResize(s))

InputTask ==
  \/ InputKey
  \/ InputResize

Next ==
  \/ CaptureTask
  \/ AppLoop
  \/ InputTask

Spec == Init /\ [][Next]_vars

\* ------------------------------------------- switch_mode, applied k times
\* A run that starts in any mode and in which the terminal delivers only
\* mode-switch key presses.
InitSwitchMode ==
  /\ \E size \in {StartSize}, ids \in ProbeResults, m \in ImageConvertTypes :
       config = [FrameHandlerConfigNew(size, ids) EXCEPT !.image_convert_type = m]
  /\ InitRest

InputModeKey == InputSendUpTo(EvKey(<<"m", FALSE>>), MaxModePresses)

NextSwitchMode ==
  \/ CaptureTask
  \/ AppRecvFrame
  \/ AppRecvKey
  \/ AppWriteQueue
  \/ AppCheckLock
  \/ AppModeRead
  \/ AppModeWrite
  \/ InputModeKey

SpecSwitchMode == InitSwitchMode /\ [][NextSwitchMode]_vars

\* ----------------------------------------- Camera::switch, applied k times
\* A run that starts at any valid active index, in which the terminal
\* delivers only camera-switch key presses and every resize succeeds, so
\* that every Camera::switch is one key press.
InitSwitchCam ==
  /\ \E size \in {StartSize}, ids \in ProbeResults \ {<<>>} :
       \E i \in 0..(Len(ids) - 1) :
         config = [FrameHandlerConfigNew(size, ids) EXCEPT !.camera.active_index = Some(i)]
  /\ InitRest

InputCamKey == InputSendUpTo(EvKey(<<"c", FALSE>>), MaxCamPresses)

NextSwitchCam ==
  \/ CapGetCamId
  \/ CapResize(TRUE)
  \/ CapConvertSend
  \/ CapTick
  \/ AppRecvFrame
  \/ AppRecvKey
  \/ AppWriteQueue
  \/ AppCheckLock
  \/ AppSwitchCam
  \/ InputCamKey

SpecSwitchCam == InitSwitchCam /\ [][NextSwitchCam]_vars


\* ------------------------------------------------ the resize target
\* A run that starts in any render mode, window scale and terminal size
\* and in which the terminal delivers nothing: the capture task computes
\* its resize target and publishes, the loop takes the frames.
InitTargetSize ==
  /\ \E size \in TerminalSizes, ids \in ProbeResults,
        m \in ImageConvertTypes, sc \in CamWindowScales :
       config = [FrameHandlerConfigNew(size, ids) EXCEPT !.image_convert_type = m,
                                                         !.cam_window_scale = sc]
  /\ InitRest

NextTargetSize ==
  \/ CaptureTask
  \/ AppRecvFrame

SpecTargetSize == InitTargetSize /\ [][NextTargetSize]_vars

\* ------------------------------------------- convert_frame_into_ascii
\* app.rs 24
ASCII_CHARS == <<"█", "▓", "▒", "░", " ">>

\* Largest value of a u8 channel or intensity.
U8Max == 255

\* [u8; 3] pixels in the frame's channel order (blue, green, red), indexed
\* from 1: grey levels of the two dark and the two light steps, and
\* saturated colours.
GreyLevels == {0, 10, 200, 210}
Grey(v) == <<v, v, v>>
Colors == {Grey(v) : v \in GreyLevels} \cup {<<200, 0, 0>>, <<0, 200, 0>>, <<0, 0, 255>>}

\* The sub-pixel positions of one cell: 0 | 1 over 2 | 3 (lines 173-178).
SubPixelIds == 0..3
SubPixelBlocks == [SubPixelIds -> Colors]

\* u8::abs_diff
AbsDiff(a, b) == IF a < b THEN b - a ELSE a - b

\* color_dist, lines 136-141
ColorDist(lhs, rhs) ==
  LET x == AbsDiff(lhs[1], rhs[1])
      y == AbsDiff(lhs[2], rhs[2])
      z == AbsDiff(lhs[3], rhs[3])
  IN  x * x + y * y + z * z

\* Sum of channel ch over a sequence of 2 or 3 colours.
ChannelSum(colors, ch) ==
  IF Len(colors) = 2
  THEN colors[1][ch] + colors[2][ch]
  ELSE colors[1][ch] + colors[2][ch] + colors[3][ch]

\* An average that leaves the division out.
ColorAverageNoDivision(colors) ==
  [ch \in 1..3 |-> ChannelSum(colors, ch) % (U8Max + 1)]

\* color_average, lines 144-149: per-channel u32 sum, integer division by
\* N, cast to u8.
ColorAverage(colors) ==
  [ch \in 1..3 |-> (ChannelSum(colors, ch) \div Len(colors)) % (U8Max + 1)]

\* Color::Rgb(c[2], c[1], c[0]) of lines 260-261 and 266: the ratatui
\* colour of a pixel stored blue, green, red.
Rgb(c) == <<c[3], c[2], c[1]>>

\* lines 191-198: (fg1, fg2, other1, other2)
SubPixelPairs ==
  <<<<0, 1, 2, 3>>, <<0, 2, 1, 3>>, <<0, 3, 1, 2>>,
    <<1, 2, 0, 3>>, <<1, 3, 0, 2>>, <<2, 3, 0, 1>>>>

\* The key of min_by_key, line 200.
PairDist(sub, p) == ColorDist(sub[p[1]], sub[p[2]])

\* A selection that lets the later of two equal candidates win.
MinSelectLaterOnTie(sub, x, y) == IF PairDist(sub, y) <= PairDist(sub, x) THEN y ELSE x

\* Iterator::min_by_key's fold step: the later candidate y replaces x only
\* when its key is strictly smaller.
MinSelect(sub, x, y) == IF PairDist(sub, y) < PairDist(sub, x) THEN y ELSE x

\* lines 191-201: min_by_key folded over the six pairs in list order.
NearestPair(sub) ==
  LET P == SubPixelPairs
  IN  MinSelect(sub, MinSelect(sub, MinSelect(sub, MinSelect(sub,
        MinSelect(sub, P[1], P[2]), P[3]), P[4]), P[5]), P[6])

\* A pair table without the two diagonal arms.
PairGlyphNoDiagonal(fg1, fg2) ==
  CASE <<fg1, fg2>> = <<0, 1>> -> "▀"
    [] <<fg1, fg2>> = <<0, 2>> -> "▌"
    [] <<fg1, fg2>> = <<1, 3>> -> "▐"
    [] <<fg1, fg2>> = <<2, 3>> -> "▄"
    [] OTHER -> "unreachable"

\* lines 217-225
PairGlyph(fg1, fg2) ==
  CASE <<fg1, fg2>> = <<0, 1>> -> "▀"
    [] <<fg1, fg2>> = <<0, 2>> -> "▌"
    [] <<fg1, fg2>> = <<0, 3>> -> "▚"
    [] <<fg1, fg2>> = <<1, 2>> -> "▞"
    [] <<fg1, fg2>> = <<1, 3>> -> "▐"
    [] <<fg1, fg2>> = <<2, 3>> -> "▄"
    [] OTHER -> "unreachable"

\* lines 233-239 and 248-254: keyed by the position left as background
BackgroundGlyph(other) ==
  CASE other = 0 -> "▟"
    [] other = 1 -> "▙"
    [] other = 2 -> "▜"
    [] other = 3 -> "▛"
    [] OTHER -> "unreachable"

\* A comparison that sends equal distances to the other1 branch.
Other1CloserOrEqual(dist_1, dist_2) == dist_1 <= dist_2

\* line 227: else if dist_1 < dist_2
Other1Closer(dist_1, dist_2) == dist_1 < dist_2

\* lines 172-263: the ColorfulHalfBlock arm for the four sub-pixels of
\* one cell.
HalfBlock(subpixels) ==
  LET p == NearestPair(subpixels)
      fg1 == p[1]
      fg2 == p[2]
      other1 == p[3]
      other2 == p[4]
      fg_color == ColorAverage(<<subpixels[fg1], subpixels[fg2]>>)
      dist_remaining == ColorDist(subpixels[other1], subpixels[other2])
      dist_1 == ColorDist(fg_color, subpixels[other1])
      dist_2 == ColorDist(fg_color, subpixels[other2])
  IN  IF dist_remaining < dist_1 /\ dist_remaining < dist_2
      THEN [glyph |-> PairGlyph(fg1, fg2),
            fg |-> Rgb(fg_color),
            bg |-> Rgb(ColorAverage(<<subpixels[other1], subpixels[other2]>>))]
      ELSE IF Other1Closer(dist_1, dist_2)
      THEN [glyph |-> BackgroundGlyph(other2),
            fg |-> Rgb(ColorAverage(<<subpixels[fg1], subpixels[fg2], subpixels[other1]>>)),
            bg |-> Rgb(subpixels[other2])]
      ELSE [glyph |-> BackgroundGlyph(other1),
            fg |-> Rgb(ColorAverage(<<subpixels[fg1], subpixels[fg2], subpixels[other2]>>)),
            bg |-> Rgb(subpixels[other1])]

\* An index that is truncated, not rounded.
CharIndexTruncated(intensity) ==
  (intensity * (Len(ASCII_CHARS) - 1)) \div U8Max

\* lines 279-280: (intensity * (len - 1) / 255.0).round(); the quotient is
\* never half-way between two integers, so rounding is floor(q + 1/2).
CharIndex(intensity) ==
  (2 * intensity * (Len(ASCII_CHARS) - 1) + U8Max) \div (2 * U8Max)

\* lines 409-416: imgproc::threshold(gray, binary, 128.0, 255.0,
\* THRESH_BINARY): maxval where the source exceeds thresh, else 0.
ThresholdBinary(gray) == IF gray > 128 THEN 255 ELSE 0

\* lines 396-420: the pixel of res_frame made from a grayscale intensity
\* of the resized frame.
ResFramePixel(mode, gray) ==
  IF mode = "Threshold" THEN ThresholdBinary(gray) ELSE gray

\* lines 171-296: one cell of the Text, from the pixel(s) of res_frame.
ConvertPixel(mode, p) ==
  CASE mode = "ColorfulHalfBlock" -> HalfBlock(p)
    [] mode = "Colorful" -> [glyph |-> "█", fg |-> Rgb(p), bg |-> "Reset"]
    [] mode = "GrayScale" -> [glyph |-> "█", fg |-> <<p, p, p>>, bg |-> "Reset"]
    [] mode = "GrayScaleThreshold" ->
         [glyph |-> ASCII_CHARS[CharIndex(p) + 1], fg |-> <<255, 255, 255>>, bg |-> "Reset"]
    [] mode = "Threshold" ->
         [glyph |-> IF p > 150 THEN "█" ELSE " ", fg |-> <<255, 255, 255>>, bg |-> "Reset"]

\* ------------------------------------------- the half-block quantizer
\* convert_frame_into_ascii in ColorfulHalfBlock, applied to the four
\* sub-pixels of one cell, for every block over Colors.
InitHalfBlock ==
  /\ config = FrameHandlerConfigNew(StartSize, <<0>>)
  /\ InitTasks
  /\ px \in SubPixelBlocks
  /\ cell = NoCell

ConvertHalfBlock ==
  /\ cell = NoCell
  /\ config.image_convert_type = "ColorfulHalfBlock"
  /\ cell' = ConvertPixel(config.image_convert_type, px)
  /\ UNCHANGED <<px, config, start_config, bus, rx_open, appVars, capVars, inVars>>

SpecHalfBlock == InitHalfBlock /\ [][ConvertHalfBlock]_vars

\* -------------------------------------------- the grayscale quantizers
\* The grayscale modes applied to one pixel of the resized frame, for
\* every intensity in turn: the capture task's conversion of lines
\* 396-420, then convert_frame_into_ascii.
GrayModes == {"GrayScale", "GrayScaleThreshold", "Threshold"}

GrayCell(mode, gray) == ConvertPixel(mode, ResFramePixel(mode, gray))

InitIntensity ==
  /\ \E m \in GrayModes :
       config = [FrameHandlerConfigNew(StartSize, <<0>>) EXCEPT !.image_convert_type = m]
  /\ InitTasks
  /\ px = 0
  /\ cell = GrayCell(config.image_convert_type, px)

NextIntensity ==
  /\ px < U8Max
  /\ px' = px + 1
  /\ cell' = GrayCell(config.image_convert_type, px')
  /\ UNCHANGED <<config, start_config, bus, rx_open, appVars, capVars, inVars>>

SpecIntensity == InitIntensity /\ [][NextIntensity]_vars

\* ------------------------------------------------ frames on the channel
\* A run in which the channel holds up to MaxBacklog events, so that
\* frames queue up behind each other, and the terminal delivers only
\* mode-switch key presses, so that queued frames differ.
CapPublishBacklog == CapPublishUpTo(MaxBacklog)

InputFrameKey == InputSendUpTo(EvKey(<<"m", FALSE>>), MaxFramePresses)

NextFrames ==
  \/ CapGetCamId
  \/ CapCamSize
  \/ CapFailover
  \/ CapPublishBacklog
  \/ CapTick
  \/ AppRecvFrame
  \/ AppRecvKey
  \/ AppWriteQueue
  \/ AppCheckLock
  \/ AppModeRead
  \/ AppModeWrite
  \/ InputFrameKey

SpecFrames == Init /\ [][NextFrames]_vars

\* ------------------------------------------------------ the config lock
\* The whole program with MaxLockInputs terminal events, under the
\* scheduling the runtime gives: the interval's tick completes, and the
\* application loop, once it has asked for the write lock, is polled
\* until it has written.
InputLockKey == \E k \in KeyEvents : InputSendUpTo(EvKey(k), MaxLockInputs)
InputLockResize == \E s \in TerminalSizes : InputSendUpTo(EvResize(s), MaxLockInputs)

AppWrites ==
  \/ AppWriteQueue
  \/ AppToggleLock
  \/ AppModeWrite
  \/ AppScaleWrite
  \/ AppSwitchCam
  \/ AppResizeWrite

NextLock ==
  \/ CaptureTask
  \/ AppLoop
  \/ InputLockKey
  \/ InputLockResize

SpecLock ==
  /\ Init
  /\ [][NextLock]_vars
  /\ WF_vars(CapTick)
  /\ WF_vars(AppWrites)

\* ================================================================ claims
CapPanics == {"panic_no_cam", "panic_open", "panic_read"}
ActiveIndex == Unwrap(config.camera.active_index)
NumCams == Len(config.camera.ids)

\* C1: a tick whose resize fails goes to the failover write, and that write
\* advances the active camera index exactly one position (modulo the number
\* of cameras) and takes the capture task back to the top of its loop, not
\* to a panic or to its end.
C1_ResizeFailureSwitchesOnce ==
  [][ /\ (pc_cap = "cam_size" /\ resize_res' = "err" => pc_cap' = "failover")
      /\ (pc_cap = "failover" /\ pc_cap' # pc_cap =>
            /\ config'.camera.ids = config.camera.ids
            /\ config'.camera.active_index = Some((ActiveIndex + 1) % NumCams)
            /\ pc_cap' = "cam_id") ]_vars

\* C1 witness: with two cameras and no key pressed, a resize failure has
\* moved the active index from 0 to 1 and the task is at the top of its loop.
C1_Witness ==
  /\ pc_cap = "cam_id"
  /\ resize_res = "err"
  /\ n_inputs = 0
  /\ NumCams = 2
  /\ config.camera.active_index = Some(1)

\* C2: the capture task is never in a panicked state because opening the
\* camera or reading a frame failed.
C2_NoPanicOnOpenOrRead == pc_cap \notin {"panic_open", "panic_read"}

\* C3: with an empty camera list the capture task has not crashed or ended,
\* no frame is on the bus and the frame buffer is the empty placeholder.
C3_EmptyCameraSetStaysAlive ==
  config.camera.ids = <<>> =>
    /\ pc_cap \notin CapPanics \cup {"done"}
    /\ \A i \in 1..Len(bus) : bus[i][1] # "AsciiFrame"
    /\ frame_buffer = EmptyFrame

\* C4: the active index is unset or a valid position into the probed ids.
C4_ActiveIndexValid ==
  \/ config.camera.active_index = None
  \/ (0 <= ActiveIndex /\ ActiveIndex < NumCams)

C6_EveryEscapeTerminates ==
  [][ pc_app = "check_lock" /\ IsKey(app_ev, "Esc") /\ pc_app' # pc_app
        => app_state' = "Terminated" ]_vars

\* C6 (amended): every Escape key press the Running loop processes while
\* ui_locked is false takes it to Terminated.
C6_EscapeTerminatesWhenUnlocked ==
  [][ pc_app = "check_lock" /\ IsKey(app_ev, "Esc") /\ ~config.is_locked
        /\ pc_app' # pc_app
        => app_state' = "Terminated" ]_vars

\* C6 witness: the loop has terminated on an Escape key press.
C6_Witness == app_state = "Terminated" /\ IsKey(app_ev, "Esc")

\* C7: while ui_locked is true, processing a key press other than the
\* lock chord leaves the whole config unchanged, starts no write and keeps
\* the loop Running.
C7_LockedKeysChangeNothing ==
  [][ pc_app = "check_lock" /\ ~IsLockChord(app_ev) /\ config.is_locked
        /\ pc_app' # pc_app
        => config' = config /\ pc_app' = "recv" /\ app_state' = "Running" ]_vars

\* C7 witness: a mode-switch, scale-switch, camera-switch or Escape key
\* press is about to be processed while the UI is locked.
C7_Witness ==
  /\ pc_app = "check_lock"
  /\ config.is_locked
  /\ app_ev[2] \in {"m", "f", "c", "Esc"}

\* C8: every lock chord taken from the bus goes to toggle_lock, which flips
\* is_locked whatever it was and changes no other field; the rest of the
\* chord's processing changes nothing, and the loop stays Running.
C8_ChordAlwaysToggles ==
  [][ /\ (pc_app = "recv" /\ pc_app' # pc_app /\ IsLockChord(app_ev')
            => pc_app' = "toggle_lock")
      /\ (IsLockChord(app_ev) /\ pc_app = "toggle_lock" /\ pc_app' # pc_app
            => /\ config' = [config EXCEPT !.is_locked = ~config.is_locked]
               /\ pc_app' = "check_lock"
               /\ app_state' = "Running")
      /\ (IsLockChord(app_ev) /\ pc_app = "check_lock" /\ pc_app' # pc_app
            => /\ config' = config
               /\ pc_app' = "recv"
               /\ app_state' = "Running") ]_vars

\* C8 witness: a chord pressed while the UI was locked has just unlocked it.
C8_Witness ==
  /\ pc_app = "check_lock"
  /\ IsLockChord(app_ev)
  /\ ~config.is_locked

\* Every key press delivered so far has been processed to its end.
KeysProcessed ==
  /\ app_state = "Running"
  /\ pc_app = "recv"
  /\ \A i \in 1..Len(bus) : bus[i][1] # "Event"

\* The cycle of render modes as the specification states it.
ModeCycle == <<"ColorfulHalfBlock", "Colorful", "GrayScale", "GrayScaleThreshold", "Threshold">>
ModePos(m) == CHOOSE i \in 1..Len(ModeCycle) : ModeCycle[i] = m

\* C9: after k mode-switch key presses processed from a starting mode, the
\* mode is the one k steps further along the cycle ColorfulHalfBlock ->
\* Colorful -> GrayScale -> GrayScaleThreshold -> Threshold ->
\* ColorfulHalfBlock; it is the starting mode again after 5 and after
\* none of 1..4.
C9_ModeCyclePeriod5 ==
  KeysProcessed =>
    /\ config.image_convert_type =
         ModeCycle[((ModePos(start_config.image_convert_type) - 1 + n_inputs) % 5) + 1]
    /\ (n_inputs = 5 => config.image_convert_type = start_config.image_convert_type)
    /\ (n_inputs \in 1..4 => config.image_convert_type # start_config.image_convert_type)

\* C9 witness: five presses from GrayScaleThreshold are processed and the
\* mode is GrayScaleThreshold again.
C9_Witness ==
  /\ KeysProcessed
  /\ n_inputs = 5
  /\ start_config.image_convert_type = "GrayScaleThreshold"
  /\ config.image_convert_type = "GrayScaleThreshold"

\* C10: with N >= 1 cameras and a valid starting index, k processed
\* camera switches leave the active index at (start + k) mod N, so N of
\* them return it to the start.
C10_CameraSwitchWraps ==
  KeysProcessed /\ NumCams >= 1 =>
    /\ config.camera.active_index =
         Some((Unwrap(start_config.camera.active_index) + n_inputs) % NumCams)
    /\ (n_inputs = NumCams => config.camera.active_index = start_config.camera.active_index)

\* C10 witness: two cameras, start at index 1, two switches processed, the
\* index is 1 again.
C10_Witness ==
  /\ KeysProcessed
  /\ NumCams = 2
  /\ n_inputs = 2
  /\ start_config.camera.active_index = Some(1)
  /\ config.camera.active_index = Some(1)

\* The frame event the capture task has just appended to the bus.
SentFrame == bus'[Len(bus')][2]
CapPublishes == pc_cap = "convert" /\ pc_cap' = "tick"

\* C11: a capture iteration converts with the render mode it computed its
\* resize target with, whatever the application loop writes in between:
\* every frame it publishes has the mode of that read and exactly
\* (display width div scale) x (display height div scale) cells for the
\* size and scale of that read.
C11_IterationUsesOneConfigRead ==
  [][CapPublishes =>
       /\ SentFrame.mode = target_cfg.image_convert_type
       /\ SentFrame.w = target_cfg.terminal_size[1] \div ScaleValue(target_cfg.cam_window_scale)
       /\ SentFrame.h = target_cfg.terminal_size[2] \div ScaleValue(target_cfg.cam_window_scale)]_vars

\* C12: the resize target is (w div k, h div k) with k = 1 for Full and
\* k = 2 for Small, both doubled exactly in ColorfulHalfBlock; Small at
\* (100, 40) gives (50, 20) in the four other modes and (100, 40) in
\* ColorfulHalfBlock; the converted frame has half the columns and rows of
\* its source in ColorfulHalfBlock and all of them otherwise.
C12_TargetSize ==
  [][/\ pc_cap = "cam_size" /\ pc_cap' # "cam_size" =>
          LET t == target_cfg'
              k == IF t.cam_window_scale = "Full" THEN 1 ELSE 2
              w == t.terminal_size[1] \div k
              h == t.terminal_size[2] \div k
              half == t.image_convert_type = "ColorfulHalfBlock"
          IN  /\ t = TargetCfg(config)
              /\ cam_size' = IF half THEN <<w * 2, h * 2>> ELSE <<w, h>>
              /\ t.cam_window_scale = "Small" /\ t.terminal_size = <<100, 40>> =>
                   cam_size' = IF half THEN <<100, 40>> ELSE <<50, 20>>
     /\ CapPublishes =>
          /\ SentFrame.mode = config.image_convert_type
          /\ <<SentFrame.w, SentFrame.h>> =
               IF SentFrame.mode = "ColorfulHalfBlock"
               THEN <<cam_size[1] \div 2, cam_size[2] \div 2>>
               ELSE cam_size]_vars

C12_Witness ==
  /\ pc_cap = "tick"
  /\ target_cfg = [terminal_size |-> <<100, 40>>, cam_window_scale |-> "Small",
                   image_convert_type |-> "ColorfulHalfBlock"]
  /\ cam_size = <<100, 40>>
  /\ bus = <<EvFrame([mode |-> "ColorfulHalfBlock", w |-> 50, h |-> 20])>>

\* C13: the capture task never starts a new attempt faster than the
\* tick: every return to the top of its loop, the one after a resize
\* failure and camera switch included, is the end of a wait for the tick.
C13_EveryRetryWaitsForTick ==
  [][pc_cap' = "cam_id" /\ pc_cap # "cam_id" => pc_cap = "tick"]_vars

\* C14: once the receiver is dropped, a producing task whose send fails
\* stops without panicking, and nothing further is published.
C14_FailedSendStopsCleanly ==
  /\ pc_input # "panic_send"
  /\ ~rx_open => bus = <<>>

\* The four sub-pixels are a block handed to the half-block arm, and the
\* arm has made its cell.
HalfBlockDone == px \in SubPixelBlocks /\ cell # NoCell
AllSame(sub) == \A i \in SubPixelIds : sub[i] = sub[0]

\* C15: for every combination of four sub-pixel colours the half-block arm
\* returns a glyph of its two lookup tables (six pair glyphs, four
\* single-background glyphs) and never reaches an unreachable!() arm.
C15_GlyphFromLookupTables ==
  HalfBlockDone =>
    /\ cell.glyph \in {"▀", "▌", "▚", "▞", "▐", "▄"} \cup {"▟", "▙", "▜", "▛"}
    /\ cell.glyph # "unreachable"

C15_Witness ==
  /\ HalfBlockDone
  /\ px[0] = px[3] /\ px[1] = px[2] /\ px[0] # px[1]
  /\ cell.glyph = "▚"

\* C16 as stated: four sub-pixels of one colour c give foreground c,
\* background c and one of the six pair glyphs.
C16_UniformBlockPairGlyph ==
  HalfBlockDone /\ AllSame(px) =>
    /\ cell.fg = Rgb(px[0])
    /\ cell.bg = Rgb(px[0])
    /\ cell.glyph \in {"▀", "▌", "▚", "▞", "▐", "▄"}

\* C16: four sub-pixels of one colour c give foreground c, background c
\* and the single-background glyph keyed by position 2.
C16_UniformBlockBackgroundGlyph ==
  HalfBlockDone /\ AllSame(px) =>
    /\ cell.fg = Rgb(px[0])
    /\ cell.bg = Rgb(px[0])
    /\ cell.glyph = "▜"

C16_Witness ==
  /\ AllSame(px)
  /\ px[0] = <<0, 0, 255>>
  /\ cell = [glyph |-> "▜", fg |-> <<255, 0, 0>>, bg |-> <<255, 0, 0>>]

\* The decision of lines 207-211 for a block: the remaining pair is not
\* strictly nearer to itself than to the foreground, and the two
\* remaining sub-pixels are equally far from the foreground.
DistTie(sub) ==
  LET p == NearestPair(sub)
      fg_color == ColorAverage(<<sub[p[1]], sub[p[2]]>>)
      dist_remaining == ColorDist(sub[p[3]], sub[p[4]])
      dist_1 == ColorDist(fg_color, sub[p[3]])
      dist_2 == ColorDist(fg_color, sub[p[4]])
  IN  /\ ~(dist_remaining < dist_1 /\ dist_remaining < dist_2)
      /\ dist_1 = dist_2

\* The cell that folds sub-pixel `folded` into the foreground and leaves
\* sub-pixel `left` as background.
ThreeToOne(sub, folded, left) ==
  LET p == NearestPair(sub)
  IN  [glyph |-> BackgroundGlyph(left),
       fg |-> Rgb(ColorAverage(<<sub[p[1]], sub[p[2]], sub[folded]>>)),
       bg |-> Rgb(sub[left])]

\* C17 as stated: on dist_1 = dist_2 (dist_remaining not strictly less
\* than both) other1 is folded into the foreground, other2 is the
\* background and keys the glyph.
C17_TieFoldsOther1 ==
  HalfBlockDone /\ DistTie(px) =>
    cell = ThreeToOne(px, NearestPair(px)[3], NearestPair(px)[4])

\* C17: on dist_1 = dist_2 (dist_remaining not strictly less than both)
\* other2 is folded into the foreground, other1 is the background and
\* keys the glyph.
C17_TieFoldsOther2 ==
  HalfBlockDone /\ DistTie(px) =>
    cell = ThreeToOne(px, NearestPair(px)[4], NearestPair(px)[3])

C17_Witness ==
  /\ px = [i \in SubPixelIds |->
             CASE i = 2 -> <<200, 0, 0>> [] i = 3 -> <<0, 200, 0>> [] OTHER -> <<0, 0, 0>>]
  /\ DistTie(px)
  /\ cell = [glyph |-> "▜", fg |-> <<0, 66, 0>>, bg |-> <<0, 0, 200>>]

\* The block of the spec's scenario.
TieBlock == [i \in SubPixelIds |-> Grey(<<0, 10, 200, 210>>[i + 1])]

\* C18: of the pairs that tie for the least squared distance, the first in
\* the list (0,1), (0,2), (0,3), (1,2), (1,3), (2,3) is selected; the block
\* (0,0,0), (10,10,10), (200,200,200), (210,210,210) selects (0,1) and
\* gives '▀', foreground the average of sub-pixels 0 and 1, background the
\* average of sub-pixels 2 and 3.
C18_FirstMinimalPairWins ==
  HalfBlockDone =>
    /\ \A i \in 1..6 :
         (/\ \A j \in 1..6 : PairDist(px, SubPixelPairs[i]) <= PairDist(px, SubPixelPairs[j])
          /\ \A j \in 1..(i - 1) : PairDist(px, SubPixelPairs[i]) < PairDist(px, SubPixelPairs[j]))
         => NearestPair(px) = SubPixelPairs[i]
    /\ px = TieBlock =>
         /\ NearestPair(px) = <<0, 1, 2, 3>>
         /\ cell = [glyph |-> "▀", fg |-> <<5, 5, 5>>, bg |-> <<205, 205, 205>>]

C18_Witness ==
  /\ px = TieBlock
  /\ PairDist(px, <<0, 1, 2, 3>>) = PairDist(px, <<2, 3, 0, 1>>)
  /\ cell.glyph = "▀"

\* Position of a glyph in the ramp, from 0.
RampIndex(glyph) == CHOOSE k \in 0..(Len(ASCII_CHARS) - 1) : ASCII_CHARS[k + 1] = glyph

\* The cell made of intensity i shows the ramp glyph whose index is i * 4 /
\* 255 rounded to the nearest integer.
OnRamp(i, c) ==
  /\ \E k \in 0..4 : ASCII_CHARS[k + 1] = c.glyph
  /\ RampIndex(c.glyph) \in 0..4
  /\ 2 * AbsDiff(RampIndex(c.glyph) * 255, i * 4) <= 255
  /\ i = 0 => RampIndex(c.glyph) = 0 /\ c.glyph = "█"
  /\ i = 255 => RampIndex(c.glyph) = 4 /\ c.glyph = " "

\* C19: in GrayScaleThreshold the glyph index round(intensity * 4 / 255)
\* lies in 0..4 of the ramp, does not decrease as the intensity goes from
\* 0 to 255, is 0 ('█') at intensity 0 and the last index (' ') at 255.
C19_RampIndexMonotonic ==
  [][config.image_convert_type = "GrayScaleThreshold" =>
       /\ OnRamp(px, cell)
       /\ OnRamp(px', cell')
       /\ RampIndex(cell'.glyph) >= RampIndex(cell.glyph)]_vars

C19_Witness ==
  /\ config.image_convert_type = "GrayScaleThreshold"
  /\ px = 255
  /\ cell.glyph = " "

\* C20: in Threshold mode a pixel of grayscale intensity i of the captured
\* frame, as the capture task's Threshold path processes it, is a solid
\* block exactly when i > 150: 150 gives a space, 151 a solid block.
C20_ThresholdStepAt150 ==
  config.image_convert_type = "Threshold" /\ px \in 0..U8Max =>
    /\ cell.glyph = (IF px > 150 THEN "█" ELSE " ")
    /\ px = 150 => cell.glyph = " "
    /\ px = 151 => cell.glyph = "█"

\* The oldest event of the bus is a frame.
FrameIsNext == bus # <<>> /\ bus[1][1] = "AsciiFrame"

\* C21: the frame buffer is latest-wins and never regresses: events leave
\* the bus oldest first and enter it at the end, so frames are taken in
\* the order they were published; the frame buffer becomes the frame just
\* taken, the oldest on the bus, and changes at no other step.
C21_FrameBufferLatestWins ==
  [][/\ Len(bus') > Len(bus) => bus' = Append(bus, bus'[Len(bus')])
     /\ Len(bus') < Len(bus) => bus' = SubSeq(bus, 2, Len(bus))
     /\ Len(bus') < Len(bus) /\ FrameIsNext => frame_buffer' = bus[1][2]
     /\ frame_buffer' # frame_buffer =>
          /\ FrameIsNext
          /\ Len(bus') < Len(bus)
          /\ frame_buffer' = bus[1][2]]_vars

C21_Witness ==
  /\ Len(bus) = 2
  /\ bus[1][1] = "AsciiFrame" /\ bus[2][1] = "AsciiFrame"
  /\ bus[1][2] # bus[2][2]
  /\ frame_buffer # EmptyFrame

\* C22: a mode switch takes effect within a bounded number of ticks: the
\* mode is written only by the application loop, and every capture
\* iteration quantizes with the mode the config holds when it publishes,
\* which is the mode of the last completed write; no frame published after
\* the write of M is quantized with the previous mode.
C22_PublishedModeIsWrittenMode ==
  [][CapPublishes =>
       /\ config' = config
       /\ SentFrame.mode = config.image_convert_type]_vars

C22_Witness ==
  /\ pc_cap = "tick"
  /\ start_config.image_convert_type = "Threshold"
  /\ target_cfg.image_convert_type = "Threshold"
  /\ config.image_convert_type = "ColorfulHalfBlock"
  /\ bus = <<EvFrame([mode |-> "ColorfulHalfBlock", w |-> 25, h |-> 10])>>

\* The application loop completes the write of switch_mode / of
\* switch_cam_window_scale in this step.
ModeWritten == pc_app = "mode_write" /\ pc_app' = "recv"
ScaleWritten == pc_app = "scale_write" /\ pc_app' = "recv"

\* C23: no update of the shared config is lost: each unlocked mode-switch
\* key press leads to one write that advances the mode, as it is just
\* before the write, by one step of the cycle, each scale-switch key press
\* to one write that toggles the scale, and nothing else changes either.
C23_NoLostUpdate ==
  [][/\ ModeWritten =>
          /\ ModePos(config'.image_convert_type) = (ModePos(config.image_convert_type) % 5) + 1
          /\ config' = [config EXCEPT !.image_convert_type = config'.image_convert_type]
     /\ ScaleWritten =>
          /\ config'.cam_window_scale # config.cam_window_scale
          /\ config'.cam_window_scale \in CamWindowScales
          /\ config' = [config EXCEPT !.cam_window_scale = config'.cam_window_scale]
     /\ config'.image_convert_type # config.image_convert_type => ModeWritten
     /\ config'.cam_window_scale # config.cam_window_scale => ScaleWritten
     /\ pc_app = "check_lock" /\ ~config.is_locked /\ IsKey(app_ev, "m") =>
          pc_app' \in {"check_lock", "mode_read"}
     /\ pc_app = "check_lock" /\ ~config.is_locked /\ IsKey(app_ev, "f") =>
          pc_app' \in {"check_lock", "scale_read"}
     /\ pc_app = "mode_read" => pc_app' \in {"mode_read", "mode_write"}
     /\ pc_app = "scale_read" => pc_app' \in {"scale_read", "scale_write"}
     /\ pc_app = "mode_write" => pc_app' \in {"mode_write", "recv"}
     /\ pc_app = "scale_write" => pc_app' \in {"scale_write", "recv"}]_vars

\* Two mode-switch key presses were processed while a failover of the
\* capture task wrote the config in between.
C23_Witness ==
  /\ n_inputs = 2
  /\ pc_app = "recv"
  /\ bus = <<>>
  /\ config.image_convert_type = "GrayScale"
  /\ config.camera.active_index # start_config.camera.active_index

\* Position in CameraSet of the camera whose frame the iteration read.
FailedCamIndex == CHOOSE i \in 0..(NumCams - 1) : config.camera.ids[i + 1] = current_cam_id

\* C25: failover moves off the camera that failed and skips none: when
\* the resize of a frame read from camera K fails, the active camera after
\* the failover write is K's successor in the CameraSet, wrapping to the
\* first, whatever the application loop wrote in between.
C25_FailoverMovesToSuccessor ==
  [][pc_cap = "failover" /\ pc_cap' = "cam_id" =>
       config'.camera.active_index = Some((FailedCamIndex + 1) % NumCams)]_vars

\* A task is waiting for the config lock.
WriteRequested == app_state = "Running" /\ pc_app \in AppWritePcs
AppBlocked == WriteRequested /\ ~CanWrite
CapBlocked == pc_cap \in {"cam_id", "cam_size", "convert"} /\ ~CanRead

\* The capture task asks for the write lock without its read guard; the
\* two tasks are never both blocked; what a blocked write of the
\* application loop waits for is the capture task's tick.
LockDiscipline ==
  /\ pc_cap = "failover" => ~cap_read_held
  /\ cap_read_held => pc_cap = "tick"
  /\ ~(AppBlocked /\ CapBlocked)
  /\ AppBlocked => pc_cap = "tick"
  /\ app_write_queued => WriteRequested

\* C24: the config lock never deadlocks: no task asks for the write lock
\* while it holds a read guard, the two tasks are never both blocked on
\* the lock, and every write the application loop requests is eventually
\* granted once the capture task's tick completes.
C24_LockNeverDeadlocks ==
  /\ []LockDiscipline
  /\ WriteRequested ~> ~WriteRequested

C24_Witness ==
  /\ pc_app = "mode_write"
  /\ app_write_queued
  /\ cap_read_held
  /\ pc_cap = "tick"

====
